---- MODULE Spec2Model ----
(***************************************************************************)
(* Shadow-proving batch synchronisation (prover/bin/shadow-prove).         *)
(*                                                                         *)
(* The model follows main.rs (the scheduler loop) and shadow_rollup.rs     *)
(* (BatchSyncer::sync_batch, get_committed_batch, batch_blocks_inspect,    *)
(* batch_header_inspect, is_prove_success).  One action per await point of *)
(* a cycle, plus the two ledgers as the environment.                       *)
(*                                                                         *)
(* u64 values are kept exact in a window around 0 and 2^64: a value v is   *)
(* represented by v when it is small and by v - 2^64 (a negative number)   *)
(* when it lies just below 2^64, so wrapping +, - and the unsigned order   *)
(* are exactly those of 64-bit arithmetic.                                 *)
(***************************************************************************)
EXTENDS Integers, Sequences, FiniteSets, TLC

\* ------------------------------------------------------------------------
\* Program constants
\* ------------------------------------------------------------------------
\* get_committed_batch: the scan window, latest - 600
ScanWindow == 600
\* read_env_var("SHADOW_PROVING_MAX_BLOCK", 300)
SHADOW_PROVING_MAX_BLOCK == 300
\* read_env_var("SHADOW_PROVING_MAX_TXN", 600)
SHADOW_PROVING_MAX_TXN == 600
\* the six 32-byte fields of BatchStore
FieldLen == 32

\* ------------------------------------------------------------------------
\* Bounds of the model
\* ------------------------------------------------------------------------
\* commit events the canonical ledger emits in a run
MaxEvents == 3

\* ------------------------------------------------------------------------
\* Input sets
\* ------------------------------------------------------------------------
\* base-ledger block heights the chain passes through; from 850 the scan window
\* (850 - 600 = 250) no longer holds the events of the earlier heights
L1Heights == {100, 150, 200, 850}
\* index of the first batch whose commit event the model sees
FirstIndexes == {0, 41}
\* execution-ledger block anchor of the first batch
AnchorBase == 1000000
\* execution-ledger shapes of the chain:
\*   span  blocks per batch, batchDataStore(i).blockNumber - batchDataStore(i-1).blockNumber
\*         (2: the range 1000001..1000002; 301: one block over the ceiling; 1: a
\*         one-block batch; 0 and -2: the store shows no advance, or a smaller anchor)
\*   txs   transactions in every even-numbered block (odd-numbered blocks are empty)
L2Shapes == {[span |-> -2, txs |-> 1], [span |-> 0, txs |-> 1], [span |-> 1, txs |-> 1],
             [span |-> 2, txs |-> 1], [span |-> 2, txs |-> 601],
             [span |-> 301, txs |-> 1]}
\* calldata of the canonical commit transactions
\*   "v1"        a commitBatch call whose parentBatchHeader is a 257-byte V1 header
\*   "short"     a commitBatch call whose parentBatchHeader is 100 bytes long
\*   "malformed" calldata that does not decode as a commitBatch call
TxInputs == {"v1", "short", "malformed"}
\* which per-block transaction-count reads fail in a cycle
L2ReadFailures == {"none", "even", "all"}

VARIABLES
    \* build and chain profile, fixed for a run
    overflow_checks,    \* TRUE: arithmetic overflow panics (debug profile); FALSE: it wraps
    first_index,
    l2_shape,
    tx_input,
    \* canonical (base) ledger
    l1_height,
    commit_logs,        \* CommitBatch events in chain order
    \* shadow ledger
    prove_success,      \* indices with isProveSuccess = true
    shadow_committed,   \* indices whose commitBatch was included with success status
    \* the process: main loop and the locals of the sync_batch call in progress
    pc,
    latest,
    scan,               \* what get_logs answered: "ok" or "err"
    logs,
    batch_index,
    blocks,
    total_txn_count,
    batch_info,
    next_tx_hash,       \* the event whose transaction is fetched (its hash), or NoLog
    batch_header,
    committed_batch,    \* what get_committed_batch returned: "Some", "None" or "Err"
    prove_state,        \* what isProveSuccess answered: "true", "false" or "error"
    batch_store,
    result,
    \* bookkeeping of the current cycle
    calls,              \* ledger and prover calls made
    rpc_failed,         \* some ledger call of the cycle failed
    rerun,              \* "yes": this run directly follows a run that ended Synced,
                        \* and no ledger moved since that run began
    commit_tx,          \* what became of the commitBatch transaction of the cycle
    retry               \* the candidate and events of the previous cycle when its
                        \* commitBatch failed, no ledger moved since and the scan of
                        \* this cycle returned the same events; NoRetry otherwise

chainVars == <<overflow_checks, first_index, l2_shape, tx_input>>
l1Vars == <<l1_height, commit_logs>>
shadowVars == <<prove_success, shadow_committed>>
localVars == <<latest, scan, logs, batch_index, blocks, total_txn_count, batch_info,
               next_tx_hash, batch_header, committed_batch, prove_state, batch_store>>
cycleVars == <<calls, rpc_failed, commit_tx>>
vars == <<chainVars, l1Vars, shadowVars, pc, localVars, result, cycleVars, rerun, retry>>

\* ------------------------------------------------------------------------
\* u64 arithmetic
\* ------------------------------------------------------------------------
\* a - b overflows (goes below 0) in u64
SubOverflows(a, b) == (a >= 0 /\ b >= 0 /\ a < b) \/ (a < 0 /\ b < 0 /\ a < b)
\* a + b overflows (passes 2^64) in u64
AddOverflows(a, b) == a < 0 /\ a + b >= 0
\* wrapping_sub / wrapping_add in the windowed representation
WrappingSub(a, b) == a - b
WrappingAdd(a, b) == a + b
\* unsigned a > b: a negative representative is a value just below 2^64
U64Gt(a, b) == IF (a < 0) = (b < 0) THEN a > b ELSE a < 0
U64Le(a, b) == ~U64Gt(a, b)

\* ------------------------------------------------------------------------
\* Data
\* ------------------------------------------------------------------------
NoBatch == [batch_index |-> 0, start_block |-> 0, end_block |-> 0]
NoLog == [batch_index |-> 0, block_number |-> 0]
NoRetry == [batch_index |-> 0, logs |-> <<>>]
ZeroField == [k \in 1..FieldLen |-> 0]
ZeroStore == [prevStateRoot |-> ZeroField, postStateRoot |-> ZeroField,
              withdrawalRoot |-> ZeroField, dataHash |-> ZeroField,
              blobVersionedHash |-> ZeroField, sequencerSetVerifyHash |-> ZeroField]
NoCalls == [batchDataStore |-> 0, txCount |-> 0, isProveSuccess |-> 0,
            getTransaction |-> 0, commitBatch |-> 0, prove |-> 0]
Pending == [kind |-> "Pending", batch |-> NoBatch]


\* ------------------------------------------------------------------------
\* The canonical ledger as the RPCs show it
\* ------------------------------------------------------------------------
\* Rollup.batchDataStore(i).blockNumber
BatchDataStore(i) == AnchorBase + (i - first_index) * l2_shape.span

\* eth_getBlockTransactionCountByNumber on the execution ledger
BlockTxCount(b) == IF b % 2 = 0 THEN l2_shape.txs ELSE 0

\* does the transaction-count read of block b fail under failure mode f
TxCountReadFails(f, b) == \/ f = "all"
                          \/ f = "even" /\ b % 2 = 0

\* byte k (offset from 0) of the BatchHeader of batch i, BatchHeaderCodecV1 layout:
\* version at 0, batchIndex big-endian at 1..8, then non-zero commitment bytes
HeaderByte(i, k) == IF k = 0 THEN 1
                    ELSE IF k < 8 THEN 0
                    ELSE IF k = 8 THEN i % 256
                    ELSE ((k * 7 + i) % 255) + 1

BatchHeaderOf(i, len) == [k \in 1..len |-> HeaderByte(i, k - 1)]

HeaderLenOf(input) == IF input = "v1" THEN 257 ELSE 100

\* Rollup::commitBatchCall::abi_decode(tx.input).batchDataInput.parentBatchHeader of
\* the transaction that emitted event e: the header of the parent of the batch it commits
ParentBatchHeader(e) == BatchHeaderOf(e.batch_index - 1, HeaderLenOf(tx_input))

\* the transaction emitting e is a commitBatch call (batch 0 is imported, not committed)
DecodesAsCommitBatch(e) == tx_input \in {"v1", "short"} /\ e.batch_index # 0

\* ------------------------------------------------------------------------
\* Pure helpers of the code
\* ------------------------------------------------------------------------
\* get_committed_batch: first block of the scan window
ScanStart(l) == IF l > ScanWindow THEN l - ScanWindow ELSE 1

\* logs.sort_by(block_number): a stable sort
RECURSIVE InsertByBlock(_, _)
InsertByBlock(sorted, e) ==
    IF sorted = <<>> THEN <<e>>
    ELSE IF Head(sorted).block_number <= e.block_number
         THEN <<Head(sorted)>> \o InsertByBlock(Tail(sorted), e)
         ELSE <<e>> \o sorted

\* the events left in the order get_logs returned them
Unsorted(s) == s

RECURSIVE SortByBlock(_)
SortByBlock(s) ==
    IF s = <<>> THEN <<>>
    ELSE InsertByBlock(SortByBlock(SubSeq(s, 1, Len(s) - 1)), s[Len(s)])

\* batch_blocks_inspect: the loop `for i in prev_bn + 1..current_bn + 1` summing
\* get_block_transaction_count_by_number(i).unwrap_or_default().unwrap_or_default()
RECURSIVE SumTxCount(_, _, _)
SumTxCount(from, to, f) ==
    IF from > to THEN 0
    ELSE IF from = to
         THEN (IF TxCountReadFails(f, from) THEN 0 ELSE BlockTxCount(from))
         ELSE LET mid == (from + to) \div 2
              IN SumTxCount(from, mid, f) + SumTxCount(mid + 1, to, f)

\* number of iterations of that loop
LoopReads(from, to) == IF from > to THEN 0 ELSE to - from + 1

\* batch_header.get(a..b).unwrap_or_default().try_into().unwrap_or_default()
GetRange(h, a, b) == IF b <= Len(h) THEN SubSeq(h, a + 1, b) ELSE <<>>
TryInto32(s) == IF Len(s) = FieldLen THEN s ELSE ZeroField
Field(h, a, b) == TryInto32(GetRange(h, a, b))

\* a BatchStore whose dataHash and prevStateRoot are read at each other's offset
BatchStoreSwapped(h) == [prevStateRoot |-> Field(h, 25, 57),
                         postStateRoot |-> Field(h, 121, 153),
                         withdrawalRoot |-> Field(h, 153, 185),
                         dataHash |-> Field(h, 89, 121),
                         blobVersionedHash |-> Field(h, 57, 89),
                         sequencerSetVerifyHash |-> Field(h, 185, 217)]

\* ShadowRollup::BatchStore built from the header
BatchStoreOf(h) == [prevStateRoot |-> Field(h, 89, 121),
                    postStateRoot |-> Field(h, 121, 153),
                    withdrawalRoot |-> Field(h, 153, 185),
                    dataHash |-> Field(h, 25, 57),
                    blobVersionedHash |-> Field(h, 57, 89),
                    sequencerSetVerifyHash |-> Field(h, 185, 217)]

\* the orders in which get_logs may return the events of s: the order of the chain
\* and its reverse, each started at any event (for up to 3 events: every order)
RECURSIVE Reverse(_)
Reverse(s) == IF s = <<>> THEN <<>> ELSE Append(Reverse(Tail(s)), Head(s))
Rotate(s, r) == SubSeq(s, r + 1, Len(s)) \o SubSeq(s, 1, r)
ReturnOrders(s) ==
    IF s = <<>> THEN {s}
    ELSE {Rotate(t, r) : t \in {s, Reverse(s)}, r \in 0..(Len(s) - 1)}

\* get_logs with from_block(from): the events at or after block from, in chain order
RECURSIVE InWindow(_, _)
InWindow(s, from) ==
    IF s = <<>> THEN <<>>
    ELSE IF Head(s).block_number >= from
         THEN <<Head(s)>> \o InWindow(Tail(s), from)
         ELSE InWindow(Tail(s), from)


\* ------------------------------------------------------------------------
\* Decisions of the code
\* ------------------------------------------------------------------------
\* a length check that lets two events through
NotEnoughLogsBelowTwo(got) == Len(got) < 2

\* get_committed_batch: `if logs.is_empty()` and `if logs.len() < 3`
NotEnoughLogs(got) == Len(got) = 0 \/ Len(got) < 3

\* get_committed_batch: the candidate, logs.get(logs.len() - 2).topics()[1]
CandidateIndex(sorted) == sorted[Len(sorted) - 1].batch_index

\* get_committed_batch: logs.last(), the event whose transaction holds the header
NextTxLog(sorted) == sorted[Len(sorted)]

\* get_committed_batch: `if blocks.0 <= blocks.1 { return Err("blocks is empty") }`
BlocksIsEmpty(b) == U64Le(b[1], b[2])

\* get_committed_batch: blocks.1 - blocks.0 + 1, wrapping
BlockCount(b) == WrappingAdd(WrappingSub(b[2], b[1]), 1)

\* that expression overflows: with overflow checks the process panics
BlockCountOverflows(b) ==
    SubOverflows(b[2], b[1]) \/ AddOverflows(WrappingSub(b[2], b[1]), 1)

\* get_committed_batch: `> read_env_var("SHADOW_PROVING_MAX_BLOCK", 300)`
TooManyBlocks(b) == U64Gt(BlockCount(b), SHADOW_PROVING_MAX_BLOCK)

\* get_committed_batch: `total_txn_count > read_env_var("SHADOW_PROVING_MAX_TXN", 600)`
TooManyTxn(t) == U64Gt(t, SHADOW_PROVING_MAX_TXN)

\* a match that hands get_committed_batch's Err(msg) on to main
OutcomePropagatingErr(r) == CASE r = "None" -> "NoOp"
                              [] r = "Err" -> "Error"

\* sync_batch: the match on get_committed_batch's result; both Ok(None) and Err(msg)
\* end the call with Ok(None)
OutcomeOfCommittedBatch(r) == CASE r = "None" -> "NoOp"
                                [] r = "Err" -> "NoOp"

\* is_prove_success: the answer of ShadowRollup.isProveSuccess(i)
IsProveSuccessCall(ok, i) == IF ~ok THEN "error"
                             ELSE IF i \in prove_success THEN "true" ELSE "false"

\* a proof-state check that skips only on a read error
AlreadyProvedOnlyOnError(answer) == answer = "error"

\* a proof-state check that takes a read error for "not proved"
AlreadyProvedOnlyOnTrue(answer) == answer = "true"

\* sync_batch: is_prove_success(..).await.unwrap_or(true)
AlreadyProved(answer) == IF answer = "error" THEN TRUE ELSE answer = "true"

\* some per-block transaction-count read of the loop fails under failure mode f
SomeTxCountReadFails(from, to, f) ==
    /\ from <= to
    /\ \/ f = "all"
       \/ f = "even" /\ (from % 2 = 0 \/ from < to)

\* ------------------------------------------------------------------------
\* Initial state
\* ------------------------------------------------------------------------
Init ==
    /\ overflow_checks \in BOOLEAN
    /\ first_index \in FirstIndexes
    /\ l2_shape \in L2Shapes
    /\ tx_input \in TxInputs
    /\ l1_height = 100
    /\ commit_logs = <<>>
    /\ prove_success = {}
    /\ shadow_committed = {}
    /\ pc = "sleep"
    /\ latest = 0
    /\ scan = "pending"
    /\ logs = <<>>
    /\ batch_index = 0
    /\ blocks = <<0, 0>>
    /\ total_txn_count = 0
    /\ batch_info = NoBatch
    /\ next_tx_hash = NoLog
    /\ batch_header = <<>>
    /\ committed_batch = "Pending"
    /\ prove_state = "unread"
    /\ batch_store = ZeroStore
    /\ result = Pending
    /\ calls = NoCalls
    /\ rpc_failed = FALSE
    /\ rerun = "no"
    /\ commit_tx = "unsent"
    /\ retry = NoRetry

\* ------------------------------------------------------------------------
\* The ledgers move on (between two cycles, while main sleeps)
\* ------------------------------------------------------------------------
\* the base ledger produces blocks: it advances by less than maxStep
L1AdvanceWithin(maxStep) ==
    /\ pc = "sleep"
    /\ \E h \in L1Heights : h > l1_height /\ h - l1_height < maxStep /\ l1_height' = h
    /\ rerun' = "no"
    /\ retry' = NoRetry
    /\ UNCHANGED <<chainVars, commit_logs, shadowVars, pc, localVars, result, cycleVars>>

L1Advance == L1AdvanceWithin(1000)

\* the sequencer commits the next batch on the canonical rollup: a CommitBatch event
L1CommitBatch ==
    /\ pc = "sleep"
    /\ Len(commit_logs) < MaxEvents
    /\ commit_logs' = Append(commit_logs,
                             [batch_index |-> first_index + Len(commit_logs),
                              block_number |-> l1_height])
    /\ rerun' = "no"
    /\ retry' = NoRetry
    /\ UNCHANGED <<chainVars, l1_height, shadowVars, pc, localVars, result, cycleVars>>

\* ------------------------------------------------------------------------
\* The process
\* ------------------------------------------------------------------------
\* a return after which main calls the prover whatever sync_batch returned
ReturnProvingAlways(kind, batch) ==
    /\ result' = [kind |-> kind, batch |-> batch]
    /\ pc' = "prove"

\* a return that, after a failed send, sends the commit again within the cycle
ReturnResending(kind, batch) ==
    /\ result' = [kind |-> kind, batch |-> batch]
    /\ pc' = IF pc = "send" THEN "send"
             ELSE IF kind = "Synced" THEN "prove" ELSE "match_result"

\* sync_batch returns to main: Ok(Some(batch)) goes on to the prover, Ok(None) and
\* Err(e) go to the match on the result
Return(kind, batch) ==
    /\ result' = [kind |-> kind, batch |-> batch]
    /\ pc' = IF kind = "Synced" THEN "prove" ELSE "match_result"

\* get_committed_batch returns r ("None" or "Err") and sync_batch ends the call
ReturnNoBatch(r) ==
    /\ committed_batch' = r
    /\ Return(OutcomeOfCommittedBatch(r), NoBatch)

\* a panic unwinds main: the process is gone
Panic ==
    /\ pc' = "panicked"
    /\ UNCHANGED result

\* main: sleep(12 s) is over, sync_batch is called
Tick ==
    /\ pc = "sleep"
    /\ pc' = "get_block_number"
    /\ rerun' = IF rerun = "armed" THEN "yes" ELSE "clean"
    /\ UNCHANGED <<chainVars, l1Vars, shadowVars, localVars, result, cycleVars, retry>>

\* sync_batch: self.l1_provider.get_block_number().await?
GetBlockNumberOn(Oks) ==
    /\ pc = "get_block_number"
    /\ \E ok \in Oks :
         IF ok
         THEN /\ latest' = l1_height
              /\ pc' = "get_logs"
              /\ UNCHANGED <<result, rpc_failed>>
         ELSE /\ Return("Error", NoBatch)
              /\ rpc_failed' = TRUE
              /\ UNCHANGED latest
    /\ UNCHANGED <<chainVars, l1Vars, shadowVars, scan, logs, batch_index, blocks,
                   total_txn_count, batch_info, next_tx_hash, batch_header,
                   committed_batch, prove_state, batch_store, calls, rerun, commit_tx, retry>>

GetBlockNumber == GetBlockNumberOn(BOOLEAN)

\* get_committed_batch: get_logs, the two length checks, the sort, the candidate
GetLogsOn(Oks) ==
    /\ pc = "get_logs"
    /\ \E ok \in Oks :
         IF ~ok
         THEN /\ scan' = "err"
              /\ rpc_failed' = TRUE
              /\ ReturnNoBatch("Err")
              /\ UNCHANGED <<logs, batch_index>>
         ELSE \E got \in ReturnOrders(InWindow(commit_logs, ScanStart(latest))) :
                /\ scan' = "ok"
                /\ UNCHANGED rpc_failed
                /\ IF NotEnoughLogs(got)
                   THEN /\ logs' = got
                        /\ ReturnNoBatch("None")
                        /\ UNCHANGED batch_index
                   ELSE /\ logs' = SortByBlock(got)
                        /\ batch_index' = CandidateIndex(logs')
                        /\ IF batch_index' = 0
                           THEN ReturnNoBatch("Err")
                           ELSE /\ pc' = "batch_blocks_inspect"
                                /\ UNCHANGED <<result, committed_batch>>
    /\ retry' = IF logs' = retry.logs THEN retry ELSE NoRetry
    /\ UNCHANGED <<chainVars, l1Vars, shadowVars, latest, blocks, total_txn_count,
                   batch_info, next_tx_hash, batch_header, prove_state, batch_store,
                   calls, rerun, commit_tx>>

GetLogs == GetLogsOn(BOOLEAN)

\* get_committed_batch: batch_blocks_inspect (both anchors, the transaction counts,
\* the log line) and the three checks on its result
BatchBlocksInspectOn(Oks, Fails) ==
    /\ pc = "batch_blocks_inspect"
    /\ \E prev_ok, cur_ok \in Oks, f \in Fails :
         LET prev_bn == BatchDataStore(batch_index - 1)
             current_bn == BatchDataStore(batch_index)
             b == <<prev_bn + 1, current_bn>>
             t == SumTxCount(prev_bn + 1, current_bn, f)
         IN IF ~prev_ok
            THEN /\ calls' = [calls EXCEPT !.batchDataStore = 1]
                 /\ rpc_failed' = TRUE
                 /\ ReturnNoBatch("Err")
                 /\ UNCHANGED <<blocks, total_txn_count, batch_info>>
            ELSE IF ~cur_ok
            THEN /\ calls' = [calls EXCEPT !.batchDataStore = 2]
                 /\ rpc_failed' = TRUE
                 /\ ReturnNoBatch("Err")
                 /\ UNCHANGED <<blocks, total_txn_count, batch_info>>
            ELSE /\ calls' = [calls EXCEPT !.batchDataStore = 2,
                                          !.txCount = LoopReads(prev_bn + 1, current_bn)]
                 /\ rpc_failed' = SomeTxCountReadFails(prev_bn + 1, current_bn, f)
                 /\ IF overflow_checks /\ SubOverflows(current_bn, prev_bn)
                    THEN \* log::info!(.., current_bn - prev_bn, ..)
                         /\ Panic
                         /\ UNCHANGED <<blocks, total_txn_count, batch_info,
                                        committed_batch>>
                    ELSE /\ blocks' = b
                         /\ total_txn_count' = t
                         /\ IF BlocksIsEmpty(b)
                            THEN /\ ReturnNoBatch("Err")
                                 /\ UNCHANGED batch_info
                            ELSE IF overflow_checks /\ BlockCountOverflows(b)
                            THEN /\ Panic
                                 /\ UNCHANGED <<batch_info, committed_batch>>
                            ELSE IF TooManyBlocks(b) \/ TooManyTxn(t)
                            THEN /\ ReturnNoBatch("None")
                                 /\ UNCHANGED batch_info
                            ELSE /\ batch_info' = [batch_index |-> batch_index,
                                                   start_block |-> b[1],
                                                   end_block |-> b[2]]
                                 /\ pc' = "batch_header_inspect"
                                 /\ UNCHANGED <<result, committed_batch>>
    /\ UNCHANGED <<chainVars, l1Vars, shadowVars, latest, scan, logs, batch_index,
                   next_tx_hash, batch_header, prove_state, batch_store, rerun, commit_tx, retry>>

BatchBlocksInspect == BatchBlocksInspectOn(BOOLEAN, L2ReadFailures)

\* get_committed_batch: logs.last() and batch_header_inspect of its transaction
BatchHeaderInspectOn(Fetches) ==
    /\ pc = "batch_header_inspect"
    /\ calls' = [calls EXCEPT !.getTransaction = @ + 1]
    /\ next_tx_hash' = NextTxLog(logs)
    /\ \E fetched \in Fetches :
         /\ rpc_failed' = (rpc_failed \/ fetched # "ok")
         /\ IF \/ fetched # "ok"
               \/ ~DecodesAsCommitBatch(next_tx_hash')
            THEN /\ ReturnNoBatch("Err")
                 /\ UNCHANGED batch_header
            ELSE /\ batch_header' = ParentBatchHeader(next_tx_hash')
                 /\ committed_batch' = "Some"
                 /\ pc' = "is_prove_success"
                 /\ UNCHANGED result
    /\ UNCHANGED <<chainVars, l1Vars, shadowVars, latest, scan, logs, batch_index,
                   blocks, total_txn_count, batch_info, prove_state, batch_store,
                   rerun, commit_tx, retry>>

BatchHeaderInspect == BatchHeaderInspectOn({"ok", "none", "err"})

\* sync_batch: the proof-state check and the assembly of the BatchStore
IsProveSuccessOn(Oks) ==
    /\ pc = "is_prove_success"
    /\ calls' = [calls EXCEPT !.isProveSuccess = @ + 1]
    /\ \E ok \in Oks :
         /\ prove_state' = IsProveSuccessCall(ok, batch_info.batch_index)
         /\ rpc_failed' = (rpc_failed \/ ~ok)
         /\ IF AlreadyProved(prove_state')
            THEN /\ Return("NoOp", NoBatch)
                 /\ UNCHANGED batch_store
            ELSE /\ batch_store' = BatchStoreOf(batch_header)
                 /\ pc' = "send"
                 /\ UNCHANGED result
    /\ UNCHANGED <<chainVars, l1Vars, shadowVars, latest, scan, logs, batch_index,
                   blocks, total_txn_count, batch_info, next_tx_hash, batch_header,
                   committed_batch, rerun, commit_tx, retry>>

IsProveSuccess == IsProveSuccessOn(BOOLEAN)

\* sync_batch: commitBatch(batch_index, batch_store).send().await
SendCommitOn(Oks) ==
    /\ pc = "send"
    /\ calls' = [calls EXCEPT !.commitBatch = @ + 1]
    /\ \E ok \in Oks :
         /\ rpc_failed' = (rpc_failed \/ ~ok)
         /\ IF ok
            THEN /\ commit_tx' = "pending"
                 /\ pc' = "get_receipt"
                 /\ UNCHANGED result
            ELSE /\ commit_tx' = "send_err"
                 /\ Return("NoOp", NoBatch)
    /\ UNCHANGED <<chainVars, l1Vars, shadowVars, localVars, rerun, retry>>

SendCommit == SendCommitOn(BOOLEAN)

\* sync_batch: pending_tx.get_receipt().await.unwrap() and the status check; a
\* transaction included with success status is recorded by the shadow rollup
GetReceiptOn(Receipts) ==
    /\ pc = "get_receipt"
    /\ \E receipt \in Receipts :
         /\ rpc_failed' = (rpc_failed \/ receipt # "success")
         /\ commit_tx' = receipt
         /\ CASE receipt = "err" ->
                   /\ Panic
                   /\ UNCHANGED shadow_committed
              [] receipt = "failed" ->
                   /\ Return("NoOp", NoBatch)
                   /\ UNCHANGED shadow_committed
              [] receipt = "success" ->
                   /\ shadow_committed' = shadow_committed \cup {batch_info.batch_index}
                   /\ Return("Synced", batch_info)
    /\ UNCHANGED <<chainVars, l1Vars, prove_success, localVars, calls, rerun, retry>>

GetReceipt == GetReceiptOn({"err", "success", "failed"})

\* the commitBatch transaction was not sent, or was included with failure status
CommitFailed(tx) == tx \in {"send_err", "failed"}

\* the effect of ShadowProver::prove on the shadow ledger's proof state
ProveEffect(outcome, batch) ==
    IF outcome = "verified" THEN prove_success \cup {batch.batch_index}
    ELSE prove_success

\* main: Ok(Some(batch)) => shadow_prover.prove(batch).await
Prove ==
    /\ pc = "prove"
    /\ calls' = [calls EXCEPT !.prove = @ + 1]
    /\ \E outcome \in {"err", "verified", "unverified"} :
         /\ prove_success' = ProveEffect(outcome, result.batch)
         /\ rerun' = IF outcome = "verified" THEN "no" ELSE rerun
    /\ pc' = "match_result"
    /\ UNCHANGED <<chainVars, l1Vars, shadow_committed, localVars, result, rpc_failed,
                   commit_tx, retry>>

\* main: `match result` logs an error if there is one, the loop iterates; the
\* locals of the finished call are gone
HandleResult ==
    /\ pc = "match_result"
    /\ pc' = "sleep"
    /\ latest' = 0
    /\ scan' = "pending"
    /\ logs' = <<>>
    /\ batch_index' = 0
    /\ blocks' = <<0, 0>>
    /\ total_txn_count' = 0
    /\ batch_info' = NoBatch
    /\ next_tx_hash' = NoLog
    /\ batch_header' = <<>>
    /\ committed_batch' = "Pending"
    /\ prove_state' = "unread"
    /\ batch_store' = ZeroStore
    /\ result' = Pending
    /\ calls' = NoCalls
    /\ rpc_failed' = FALSE
    /\ rerun' = IF result.kind = "Synced" /\ rerun \in {"yes", "clean"}
                THEN "armed" ELSE "no"
    /\ commit_tx' = "unsent"
    /\ retry' = IF CommitFailed(commit_tx)
                THEN [batch_index |-> batch_index, logs |-> logs]
                ELSE NoRetry
    /\ UNCHANGED <<chainVars, l1Vars, shadowVars>>

Next ==
    \/ Tick
    \/ GetBlockNumber
    \/ GetLogs
    \/ BatchBlocksInspect
    \/ BatchHeaderInspect
    \/ IsProveSuccess
    \/ SendCommit
    \/ GetReceipt
    \/ Prove
    \/ HandleResult
    \/ L1Advance
    \/ L1CommitBatch

Spec == Init /\ [][Next]_vars

\* ------------------------------------------------------------------------
\* The same system when every ledger call succeeds and the base ledger advances by
\* less than the scan window between two cycles; the scheduler loop is fair: a
\* cycle that can take its next step takes it
\* ------------------------------------------------------------------------
ProcessReliable ==
    \/ Tick
    \/ GetBlockNumberOn({TRUE})
    \/ GetLogsOn({TRUE})
    \/ BatchBlocksInspectOn({TRUE}, {"none"})
    \/ BatchHeaderInspectOn({"ok"})
    \/ IsProveSuccessOn({TRUE})
    \/ SendCommitOn({TRUE})
    \/ GetReceiptOn({"success"})
    \/ Prove
    \/ HandleResult

NextReliable ==
    \/ ProcessReliable
    \/ L1AdvanceWithin(ScanWindow)
    \/ L1CommitBatch

FairSpec == Init /\ [][NextReliable]_vars /\ WF_vars(ProcessReliable)

\* ------------------------------------------------------------------------
\* Properties
\* ------------------------------------------------------------------------
\* sync_batch has returned to main
Returned == pc \in {"prove", "match_result"}

\* C1: whenever isProveSuccess(i) answers true for the candidate i, the cycle ends
\* as NoOp (sync_batch returns Ok(None)) and no commitBatch is submitted in it.
C1_ProvedBatchIsSkipped ==
    prove_state = "true" =>
        /\ pc = "match_result"
        /\ result = [kind |-> "NoOp", batch |-> NoBatch]
        /\ calls.commitBatch = 0

\* a cycle whose candidate was found proved on the shadow ledger has ended
C1_Witness ==
    /\ prove_state = "true"
    /\ batch_info.batch_index \in prove_success
    /\ batch_info.batch_index # 0
    /\ pc = "match_result"

\* C2: once a commitBatch for index i was included with success status, no later
\* cycle submits commitBatch for i again: a cycle that has submitted (and not itself
\* synced) finds its index not yet committed on the shadow ledger.
C2_NoDoubleSubmit ==
    (calls.commitBatch > 0 /\ result.kind # "Synced") =>
        batch_info.batch_index \notin shadow_committed

\* both anchors were read and the range is resolved
RangeResolved == calls.batchDataStore = 2 /\ blocks # <<0, 0>>

\* C3: a candidate with non-zero index whose range has start < end, within both
\* ceilings, not proved, whose header transaction decodes and whose ledger calls all
\* succeed (the commit is included with success) makes sync_batch return
\* Synced(BatchInfo{batch_index, start, end}) after exactly one commitBatch.
C3_EligibleBatchIsSynced ==
    (/\ Returned
     /\ ~rpc_failed
     /\ scan = "ok"
     /\ batch_index # 0
     /\ RangeResolved
     /\ blocks[1] < blocks[2]
     /\ blocks[2] - blocks[1] + 1 <= SHADOW_PROVING_MAX_BLOCK
     /\ total_txn_count <= SHADOW_PROVING_MAX_TXN
     /\ batch_index \notin prove_success
     /\ DecodesAsCommitBatch(NextTxLog(logs)))
    => /\ result = [kind |-> "Synced",
                    batch |-> [batch_index |-> batch_index,
                               start_block |-> blocks[1],
                               end_block |-> blocks[2]]]
       /\ calls.commitBatch = 1

\* C4: a header blob too short for one of the six fields (shorter than 217 bytes)
\* ends the cycle without a commitBatch: none is submitted with a zero-filled field
\* standing in for the missing bytes.
C4_NoCommitFromShortHeader ==
    (committed_batch = "Some" /\ Len(batch_header) < 217) => calls.commitBatch = 0

\* C5: a resolved range with end - start + 1 > maxBlocks, or with a transaction
\* volume > maxTxns, ends the cycle as NoOp (not Error, not a panic) with no
\* commitBatch submitted.
C5_OversizedIsNoOp ==
    (/\ RangeResolved
     /\ \/ blocks[2] - blocks[1] + 1 > SHADOW_PROVING_MAX_BLOCK
        \/ total_txn_count > SHADOW_PROVING_MAX_TXN)
    => /\ pc = "match_result"
       /\ result = [kind |-> "NoOp", batch |-> NoBatch]
       /\ calls.commitBatch = 0

\* a cycle that resolved a range of 301 blocks has ended as NoOp
C5_Witness ==
    /\ RangeResolved
    /\ blocks[2] - blocks[1] + 1 = SHADOW_PROVING_MAX_BLOCK + 1
    /\ pc = "match_result"
    /\ result.kind = "NoOp"

\* the batch indices of the commit events on the canonical ledger
CommittedIndexes == {commit_logs[k].batch_index : k \in 1..Len(commit_logs)}

\* all batch indices of the model
AllIndexes == {f + k : f \in FirstIndexes, k \in 0..MaxEvents}

\* batch i has a range with start < end within both ceilings
WithinCeilings(i) ==
    LET start == BatchDataStore(i - 1) + 1
        end == BatchDataStore(i)
    IN /\ start < end
       /\ end - start + 1 <= SHADOW_PROVING_MAX_BLOCK
       /\ SumTxCount(start, end, "none") <= SHADOW_PROVING_MAX_TXN

\* batch i is committed on the canonical ledger between two other commits, within
\* both ceilings and not verified
Eligible(i) ==
    /\ i # 0
    /\ {i - 1, i, i + 1} \subseteq CommittedIndexes
    /\ WithinCeilings(i)
    /\ i \notin prove_success

\* C6: no batch is missed: with a fair scheduler, every ledger call succeeding and
\* the base ledger advancing by less than 600 blocks between cycles, every committed
\* batch within both ceilings and not yet verified is eventually submitted to (and
\* included on) the shadow ledger.
C6_NoBatchMissed ==
    \A i \in AllIndexes : [](Eligible(i) => <>(i \in shadow_committed))

\* C7: a run of sync_batch that directly follows a run that ended Synced, with no
\* ledger change in between but that commit, ends in NoOp (its ledger calls
\* succeeding).
C7_RerunIsNoOp ==
    (Returned /\ rerun = "yes" /\ ~rpc_failed) => result.kind = "NoOp"

\* C8: no failure inside a cycle terminates the scheduler loop.
C8_LoopNeverTerminates == pc # "panicked"

\* the events of the scan window, as get_logs answered them
Scanned == {logs[k] : k \in 1..Len(logs)}

\* C9: when the scan returns at least 3 events, the events are held in ascending
\* block order, they are the events of the window, the candidate index is that of
\* the second-newest event and the header transaction is that of the newest.
C9_CandidateSelection ==
    (scan = "ok" /\ Len(logs) >= 3) =>
        /\ \A i, j \in 1..Len(logs) :
             i < j => logs[i].block_number <= logs[j].block_number
        /\ Scanned = {e \in {commit_logs[k] : k \in 1..Len(commit_logs)} :
                        e.block_number >= ScanStart(latest)}
        /\ \E l \in Scanned : \E c \in Scanned \ {l} :
             /\ \A e \in Scanned : e.block_number <= l.block_number
             /\ \A e \in Scanned \ {l} : e.block_number <= c.block_number
             /\ batch_index = c.batch_index
             /\ calls.getTransaction > 0 => next_tx_hash = l

\* events at blocks 100, 150, 200 with indices 41, 42, 43: candidate 42, header
\* transaction the one at block 200
C9_Witness ==
    /\ scan = "ok"
    /\ logs = <<[batch_index |-> 41, block_number |-> 100],
                [batch_index |-> 42, block_number |-> 150],
                [batch_index |-> 43, block_number |-> 200]>>
    /\ batch_index = 42
    /\ calls.getTransaction = 1
    /\ next_tx_hash = [batch_index |-> 43, block_number |-> 200]

\* C10: a scan window with fewer than 3 commit events ends the cycle as NoOp with
\* no downstream call: no batchDataStore read, no transaction-count read, no
\* isProveSuccess query, no transaction fetch, no commitBatch.
C10_FewLogsIsNoOp ==
    (scan = "ok" /\ Len(logs) < 3) =>
        /\ pc = "match_result"
        /\ result = [kind |-> "NoOp", batch |-> NoBatch]
        /\ calls = NoCalls

\* a scan that answered two events has ended the cycle
C10_Witness ==
    /\ scan = "ok"
    /\ Len(logs) = 2
    /\ pc = "match_result"

\* C11: when the isProveSuccess read fails for the candidate, the cycle ends as
\* NoOp (sync_batch returns Ok(None)) and no commitBatch is submitted in it.
C11_ProofReadFailureIsSkipped ==
    prove_state = "error" =>
        /\ pc = "match_result"
        /\ result = [kind |-> "NoOp", batch |-> NoBatch]
        /\ calls.commitBatch = 0

\* a cycle whose proof-state read failed, for a candidate not proved, has ended
C11_Witness ==
    /\ prove_state = "error"
    /\ calls.isProveSuccess = 1
    /\ batch_info.batch_index # 0
    /\ batch_info.batch_index \notin prove_success
    /\ pc = "match_result"

\* C12: at most one commit/verify sequence is in flight: a cycle submits at most
\* one commitBatch and calls the prover at most once, a cycle starts only from the
\* sleep of main with no call of the former cycle outstanding, and main returns to
\* its sleep only after sync_batch has returned and, when it returned Synced, after
\* prove has returned too.
C12_OneSequenceInFlight ==
    [][/\ calls'.commitBatch <= 1
       /\ calls'.prove <= 1
       /\ (pc' = "get_block_number" =>
              pc = "sleep" /\ calls = NoCalls /\ result = Pending)
       /\ (pc' = "sleep" /\ pc # "sleep" =>
              /\ pc = "match_result"
              /\ result.kind \in {"NoOp", "Error", "Synced"}
              /\ result.kind = "Synced" => calls.commitBatch = 1 /\ calls.prove = 1)]_vars

\* a cycle that committed a batch and called the prover is about to end
C12_Witness ==
    /\ pc = "match_result"
    /\ result.kind = "Synced"
    /\ calls.commitBatch = 1
    /\ calls.prove = 1

\* C13: the prover is called in a cycle exactly when sync_batch returned Synced(b):
\* it is called only then, once, with that BatchInfo b (the one sync_batch built),
\* and main goes back to its sleep after one call whatever the prover answered.
C13_ProverOnlyOnSynced ==
    [][/\ (calls'.prove > calls.prove =>
              /\ pc = "prove"
              /\ calls.prove = 0
              /\ result = [kind |-> "Synced", batch |-> batch_info]
              /\ batch_info.batch_index # 0
              /\ prove_success' \subseteq prove_success \cup {batch_info.batch_index}
              /\ pc' = "match_result")
       /\ (pc' = "sleep" /\ pc # "sleep" =>
              (calls.prove = 1 <=> result.kind = "Synced"))
       /\ (pc # "prove" => prove_success' = prove_success)]_vars

\* the prover was called for the batch just synced and did not verify it
C13_Witness ==
    /\ pc = "match_result"
    /\ result.kind = "Synced"
    /\ calls.prove = 1
    /\ result.batch.batch_index \notin prove_success

\* the 32 bytes of header h from byte offset a on (BatchHeader layout)
SliceOf(h, a) == SubSeq(h, a + 1, a + FieldLen)

\* the six fields of store are the bytes of h at the offsets of the layout
FieldsMatchOffsets(store, h) ==
    /\ Len(store.dataHash) = FieldLen /\ store.dataHash = SliceOf(h, 25)
    /\ Len(store.blobVersionedHash) = FieldLen /\ store.blobVersionedHash = SliceOf(h, 57)
    /\ Len(store.prevStateRoot) = FieldLen /\ store.prevStateRoot = SliceOf(h, 89)
    /\ Len(store.postStateRoot) = FieldLen /\ store.postStateRoot = SliceOf(h, 121)
    /\ Len(store.withdrawalRoot) = FieldLen /\ store.withdrawalRoot = SliceOf(h, 153)
    /\ Len(store.sequencerSetVerifyHash) = FieldLen
    /\ store.sequencerSetVerifyHash = SliceOf(h, 185)

\* header lengths from the shortest one holding all six fields
LongHeaderLens == {217, 218, 249, 257}

\* C14: for a header of at least 217 bytes the six fields submitted in commitBatch
\* are byte for byte the header's bytes at [25,57), [57,89), [89,121), [121,153),
\* [153,185), [185,217): for the header of the cycle, and for that header cut to
\* each length from 217 on.
C14_FieldsAtOffsets ==
    /\ (commit_tx \in {"pending", "send_err"} /\ Len(batch_header) >= 217) =>
            FieldsMatchOffsets(batch_store, batch_header)
    /\ pc = "send" =>
            \A len \in LongHeaderLens :
                len <= Len(batch_header) =>
                    LET h == SubSeq(batch_header, 1, len)
                    IN FieldsMatchOffsets(BatchStoreOf(h), h)

\* a commitBatch was submitted with the fields of a 257-byte header
C14_Witness ==
    /\ commit_tx = "pending"
    /\ Len(batch_header) = 257
    /\ batch_store.prevStateRoot = SliceOf(batch_header, 89)
    /\ batch_store.prevStateRoot # batch_store.dataHash
    /\ \A k \in 1..FieldLen : batch_store.sequencerSetVerifyHash[k] # 0

\* C15: a resolved range that is empty or inverted (end <= start, with start =
\* prev_anchor + 1 and end = current_anchor) ends the cycle as NoOp: no header
\* transaction is fetched, no BatchInfo is built and no commitBatch is submitted.
C15_EmptyRangeIsNoOp ==
    (RangeResolved /\ blocks[2] <= blocks[1]) =>
        /\ pc = "match_result"
        /\ result = [kind |-> "NoOp", batch |-> NoBatch]
        /\ calls.getTransaction = 0
        /\ batch_info = NoBatch
        /\ calls.commitBatch = 0

\* a BatchInfo with a non-zero index and start_block <= end_block
WellFormed(b) == b.batch_index # 0 /\ b.start_block <= b.end_block

\* C16: every BatchInfo built by get_committed_batch, returned by sync_batch or
\* handed to the prover has batch_index # 0 and start_block <= end_block.
C16_BatchInfoWellFormed ==
    /\ batch_info # NoBatch => WellFormed(batch_info)
    /\ result.kind = "Synced" => WellFormed(result.batch)
    /\ pc = "prove" => WellFormed(result.batch)

\* the candidate read from the second-to-last event is batch 0
CandidateIsZero == scan = "ok" /\ Len(logs) >= 3 /\ batch_index = 0

\* C17 as stated: a candidate index of 0 ends the cycle with the Error outcome (not
\* NoOp), with no batchDataStore read, no proof-state query and no commitBatch.
C17_ZeroIndexIsError ==
    CandidateIsZero =>
        /\ Returned => result.kind = "Error"
        /\ calls.batchDataStore = 0
        /\ calls.isProveSuccess = 0
        /\ calls.commitBatch = 0

\* C17 amended: a candidate index of 0 makes get_committed_batch return an error,
\* which sync_batch turns into NoOp (Ok(None), not the Error outcome); no
\* batchDataStore read, no proof-state query and no commitBatch happen in the cycle.
C17_ZeroIndexIsNoOp ==
    CandidateIsZero =>
        /\ pc = "match_result"
        /\ committed_batch = "Err"
        /\ result = [kind |-> "NoOp", batch |-> NoBatch]
        /\ calls.batchDataStore = 0
        /\ calls.isProveSuccess = 0
        /\ calls.commitBatch = 0

\* a cycle whose second-to-last event is that of batch 0 has ended
C17_Witness ==
    /\ CandidateIsZero
    /\ logs[Len(logs) - 1].batch_index = 0
    /\ committed_batch = "Err"
    /\ pc = "match_result"

\* the header-source transaction was fetched and its calldata does not decode as a
\* commitBatch call
MalformedCalldata ==
    /\ calls.getTransaction > 0
    /\ ~rpc_failed
    /\ ~DecodesAsCommitBatch(next_tx_hash)

\* C18 as stated: malformed calldata of the header-source transaction ends the
\* cycle in Error (sync_batch returns an error to main), with no commitBatch.
C18_MalformedCalldataIsError ==
    MalformedCalldata =>
        /\ Returned => result.kind = "Error"
        /\ calls.commitBatch = 0

\* C18 amended: malformed calldata of the header-source transaction ends the cycle
\* as NoOp: get_committed_batch returns an error, sync_batch logs it and returns
\* Ok(None); no proof-state query is made and no commitBatch is submitted.
C18_MalformedCalldataIsNoOp ==
    MalformedCalldata =>
        /\ pc = "match_result"
        /\ committed_batch = "Err"
        /\ result = [kind |-> "NoOp", batch |-> NoBatch]
        /\ calls.isProveSuccess = 0
        /\ calls.commitBatch = 0

\* a cycle that fetched a transaction with malformed calldata has ended
C18_Witness ==
    /\ MalformedCalldata
    /\ tx_input = "malformed"
    /\ next_tx_hash.batch_index # 0
    /\ pc = "match_result"

\* the block-height read of the cycle failed
HeightReadFailed == Returned /\ rpc_failed /\ latest = 0 /\ scan = "pending"

\* the commit-event log query of the cycle failed
LogQueryFailed == scan = "err"

\* one of the two batch-anchor reads of the cycle failed
AnchorReadFailed ==
    /\ scan = "ok"
    /\ rpc_failed
    /\ calls.batchDataStore > 0
    /\ calls.txCount = 0
    /\ calls.getTransaction = 0

\* the fetch of the header-source transaction failed (its calldata would decode)
HeaderFetchFailed ==
    /\ calls.getTransaction > 0
    /\ DecodesAsCommitBatch(next_tx_hash)
    /\ committed_batch = "Err"

\* C19 as stated: a failure of the block-height read, the log query, an anchor read
\* or the header-transaction fetch ends the cycle as NoOp (never Error) with no
\* commitBatch, and main goes on to the next tick.
C19_ReadFailureIsNoOp ==
    (HeightReadFailed \/ LogQueryFailed \/ AnchorReadFailed \/ HeaderFetchFailed) =>
        /\ pc = "match_result"
        /\ result = [kind |-> "NoOp", batch |-> NoBatch]
        /\ calls.commitBatch = 0

\* C19 amended: a failure of the log query, of an anchor read or of the
\* header-transaction fetch ends the cycle as NoOp; a failure of the block-height
\* read ends it with the Error outcome, before any other call; in each case no
\* proof-state query is made, no commitBatch is submitted and main goes on to the
\* next tick.
C19_ReadFailureEndsCycle ==
    /\ HeightReadFailed =>
           /\ pc = "match_result"
           /\ result = [kind |-> "Error", batch |-> NoBatch]
           /\ calls = NoCalls
    /\ (LogQueryFailed \/ AnchorReadFailed \/ HeaderFetchFailed) =>
           /\ pc = "match_result"
           /\ result = [kind |-> "NoOp", batch |-> NoBatch]
           /\ calls.isProveSuccess = 0
           /\ calls.commitBatch = 0

\* a cycle whose block-height read failed has ended with the Error outcome
C19_Witness ==
    /\ HeightReadFailed
    /\ Len(commit_logs) = MaxEvents
    /\ result.kind = "Error"
    /\ pc = "match_result"

\* C20: a commitBatch that fails at send time or is included with failure status ends
\* the cycle as NoOp without a prover call; the ledgers being unchanged, the next
\* cycle whose reads succeed derives the same candidate again and submits
\* commitBatch for it again.
C20_FailedCommitIsRetried ==
    /\ CommitFailed(commit_tx) =>
           /\ pc = "match_result"
           /\ result = [kind |-> "NoOp", batch |-> NoBatch]
           /\ calls.commitBatch = 1
           /\ calls.prove = 0
    /\ (retry # NoRetry /\ Returned /\ logs = retry.logs
           /\ (~rpc_failed \/ commit_tx # "unsent")) =>
           /\ batch_index = retry.batch_index
           /\ calls.commitBatch = 1

\* a cycle that follows a failed commitBatch has submitted it again for the same
\* candidate, and failed again
C20_Witness ==
    /\ retry # NoRetry
    /\ batch_index = retry.batch_index
    /\ calls.commitBatch = 1
    /\ commit_tx = "failed"
    /\ pc = "match_result"

\* the batchIndex field of a BatchHeader: bytes 1..9, big-endian
RECURSIVE BigEndian(_)
BigEndian(bytes) ==
    IF bytes = <<>> THEN 0
    ELSE BigEndian(SubSeq(bytes, 1, Len(bytes) - 1)) * 256 + bytes[Len(bytes)]

HeaderBatchIndex(h) == BigEndian(SubSeq(h, 2, 9))

\* C21: whenever commitBatch(i, fields) is submitted, the header the fields were
\* sliced from is the header of batch i: its batchIndex field equals the candidate
\* index, for every set of events the scan returns.
C21_HeaderIsCandidates ==
    commit_tx # "unsent" =>
        /\ HeaderBatchIndex(batch_header) = batch_index
        /\ batch_header = BatchHeaderOf(batch_index, Len(batch_header))

BlockCountEvaluated == RangeResolved /\ ~BlocksIsEmpty(blocks)

\* C23: no unsigned subtraction of the bounds logic underflows: end - start + 1 is
\* evaluated only when end >= start, batch_index - 1 only when batch_index >= 1,
\* and no cycle panics on an arithmetic overflow.
C23_NoUnderflow ==
    /\ BlockCountEvaluated =>
           /\ blocks[2] >= blocks[1]
           /\ ~SubOverflows(blocks[2], blocks[1])
    /\ calls.batchDataStore > 0 => batch_index >= 1
    /\ pc = "panicked" => commit_tx = "err"

\* the sum of the per-block transaction counts over [b[1], b[2]] on the ledger
TrueTxnCount(b) == SumTxCount(b[1], b[2], "none")

====
